---- MODULE Spec2Model ----
(***************************************************************************)
(* A model of the neferset card renderer: the layer pipeline of            *)
(* generate.py (main, render_component, draw_clip_region), the set         *)
(* watermark handler of custom.py, and the cubic Bezier / curved text      *)
(* code of neferset/curved.py.                                             *)
(*                                                                         *)
(* Five specifications share the module:                                   *)
(*   Spec        one run of generate.py main                               *)
(*   SpecBlend   repeated calls of custom.set_watermark on one cache dir   *)
(*   SpecCurve   one CubicBezier: length, arc_lengths, offset              *)
(*   SpecParam   CubicBezier.parametrize on an arc-length table            *)
(*   SpecText    the font shrink loop of CurvedText.draw                   *)
(* A variable a specification does not use keeps its initial value.        *)
(***************************************************************************)
EXTENDS Integers, Sequences, FiniteSets, TLC

VARIABLES
    pc,          \* position in the operation a specification models
    card,        \* main: the card looked up in the database
    theme,       \* main: themeData[cardType], the layer of each type
    components,  \* main: the component list, sorted (type and layer)
    idx,         \* main: index of the next component of the for loop
    clip,        \* cairo context: the clip region in force
    err,         \* the exception that left the operation, or "none"
    painted,     \* main: types handed to render_component, in order
    last,        \* the component, data and files of the last call
    ops,         \* the calls the last render_component / set_watermark made
    written,     \* main: output.png was written
    cache,       \* custom.py: files of the .cache directory, by image name
    calls,       \* set_watermark calls made; offset calls made on the curve
    blendRuns,   \* SpecBlend: times the per-pixel loop ran
    curve,       \* curved.py: the CubicBezier object's fields
    estimates,   \* curved.py: estimate_length calls made
    snap,        \* curved.py: the first positive length and its table
    ret,         \* the value the last call returned
    size,        \* CurvedText.draw: the local size of the shrink loop
    width        \* CurvedText.draw: extents.width of the last text_path call

vars == <<pc, card, theme, components, idx, clip, err, painted, last, ops,
          written, cache, calls, blendRuns, curve, estimates, snap, ret,
          size, width>>

blendVars == <<calls, blendRuns>>
curveVars == <<curve, estimates, snap>>
textVars == <<size, width>>

Idle == "idle"
\* Python's None, and every falsy value the code tests with `if x`
NoneVal == "None"
NoErr == "none"

(***************************************************************************)
(* Bounds of the model.                                                    *)
(***************************************************************************)
\* most components a theme declares for one card type
MaxComponents == 2
\* most set_watermark calls SpecBlend makes on one cache directory
MaxRenders == 3

\* layers a theme gives its components
Layers == {1, 2}
\* component types the themes of the model declare
ThemeTypes == {"name", "rarity", "cardSet", "portrait"}

(***************************************************************************)
(* component.py                                                            *)
(***************************************************************************)
\* ComponentType, in definition order; description is an alias of powers
\* and is not iterated
ComponentType ==
    <<"powers", "elite", "health", "cost", "attack", "name", "multiClass",
      "race", "rarity", "cardSet", "classDecoration", "base", "portrait">>

ShapeType == {"rectangle", "ellipse", "curve"}

\* position of a type in the enumeration
TypeIndex(t) == CHOOSE i \in DOMAIN ComponentType : ComponentType[i] = t

\* Image.assets: the keys of the asset set a theme gives an image
Assets(image) ==
    CASE image = "default_only" -> {"default"}
      [] image = "rarities" -> {"rare", "legendary"}
      [] OTHER -> {}

\* Component(data, type): the fields render_component reads besides layer.
\* clip is a ShapeType or None, image names its asset set or is None, text
\* and curve say whether the region is given, custom is the handler name.
ComponentBodies ==
    { c \in [clip   : ShapeType \cup {NoneVal},
             image  : {NoneVal, "default_only", "rarities"},
             text   : BOOLEAN,
             curve  : BOOLEAN,
             font   : {NoneVal, "textBlock", "text"},
             custom : {NoneVal, "set_watermark", "no_such_handler"}] :
        /\ (c.font = NoneVal) <=> (~c.text /\ ~c.curve)
        /\ (c.font = "textBlock") => (c.text /\ ~c.curve)
        /\ ~(c.text /\ c.curve) }

\* ComponentData(key, text, override, data)
ComponentData(key, text, override, data) ==
    [present |-> TRUE, key |-> key, text |-> text, override |-> override,
     data |-> data]
\* cdata = None
NoData == [present |-> FALSE]
\* data=None
NoPayload == [present |-> FALSE]

(***************************************************************************)
(* The card database (hearthstone.cardxml), as sample cards.               *)
(***************************************************************************)
CraftableSets == {"gvg", "tgt"}
CardSets == CraftableSets \cup {"core"}

Cards ==
    { [id |-> "GVG_110", type |-> "minion", elite |-> TRUE,
       rarity |-> "legendary", craftable |-> TRUE, card_set |-> "gvg",
       multi |-> "invalid", race |-> "mech", description |-> "text"],
      [id |-> "CS2_106", type |-> "weapon", elite |-> FALSE,
       rarity |-> "free", craftable |-> FALSE, card_set |-> "core",
       multi |-> "invalid", race |-> "invalid", description |-> NoneVal] }
\* a card id the database does not hold
UnknownCard == [id |-> "unknown"]

(***************************************************************************)
(* custom.py: set_watermark                                                *)
(***************************************************************************)
\* An image name is a string built with "_" between its words; it is kept
\* as the sequence of its words, so that "hero" + "_" + "power" and
\* "hero_power" are the same name.
Words(s) ==
    CASE s = "hero_power" -> <<"hero", "power">>
      [] OTHER -> <<s>>

ImageNameDropsRace(card_type, is_premium, has_race, set_name) ==
    Words(card_type) \o (IF is_premium THEN <<"premium">> ELSE <<>>)
        \o Words(set_name)

\* lines 41-50: the name of the generated image
ImageName(card_type, is_premium, has_race, set_name) ==
    Words(card_type)
        \o (IF is_premium THEN <<"premium">> ELSE <<>>)
        \o (IF has_race THEN <<"race">> ELSE <<>>)
        \o Words(set_name)

\* the files set_watermark reads: whether the set icon exists, the size of
\* the base image given by the theme (the mask canvas), the size of the
\* base image file, and whether the icon has any opaque pixel
Dims == {<<1, 2>>, <<2, 1>>, <<2, 2>>}
WatermarkFiles ==
    [icon : BOOLEAN, maskDim : {<<1, 2>>}, fileDim : Dims,
     iconOpaque : BOOLEAN]
NoFiles == [icon |-> TRUE, maskDim |-> <<1, 2>>, fileDim |-> <<1, 2>>,
            iconOpaque |-> TRUE]

Area(d) == d[1] * d[2]

\* lines 82-85 and 96: the mask canvas data, one alpha per pixel
MaskData(f) == [i \in 1..Area(f.maskDim) |-> IF f.iconOpaque THEN 1 ELSE 0]
\* lines 90 and 97: the base image data, each pixel named by its index
BaseData(f) == [i \in 1..Area(f.fileDim) |-> i]

\* lines 104-115: the blend of one pixel pair
BlendPixel(r0, r1) ==
    IF r0 = 0 THEN <<"base", r1>> ELSE <<"tinted", r1>>

\* line 100: the assertion on the data size
SizeCheck(f) == Len(MaskData(f)) = f.fileDim[1] * f.fileDim[2]

CacheHitNever(name, files) == FALSE

\* lines 60-61: isfile(image_path)
CacheHit(name, files) == name \in DOMAIN files

\* the .cache directory with no file in it
EmptyCache == [n \in {} |-> 0]
\* nothing drawn by draw_image
NoImage == [key |-> <<>>, dim |-> <<0, 0>>, data |-> <<>>]

\* A call's running state: the operations made (ops), the exception raised
\* (err), the context's clip and current path, the clip that was in force
\* when the component's image was drawn, the cache directory, and the
\* image draw_image drew.
Do(st, op) == [st EXCEPT !.ops = Append(@, op)]
Raise(st, e) == [st EXCEPT !.err = e]
Enter(clipNow, files) ==
    [ops |-> <<>>, err |-> NoErr, clip |-> clipNow, path |-> "empty",
     imageClip |-> "no image", cache |-> files, drawn |-> NoImage]

\* set_watermark(ctx, comp, data), lines 16-125
SetWatermark(st, data, f) ==
    IF ~data.present
    THEN Raise(st, "TypeError")                          \* line 26
    ELSE
    LET has_race == data.card.race # "invalid"
        name == ImageName(data.cardtype, data.premium, has_race,
                          data.card.card_set)
        key == <<data.cardtype, data.premium, has_race, data.card.card_set>>
    IN  IF data.card.card_set \notin CraftableSets
        THEN Do(st, "return_not_craftable")              \* lines 34-35
        ELSE IF CacheHit(name, st.cache)
        THEN [Do(st, "draw_image") EXCEPT                \* lines 61-63
                  !.drawn = st.cache[name]]
        ELSE
        LET s1 == IF f.icon THEN st
                  ELSE Do(st, "print_set_icon_missing")  \* lines 76-77
        IN  IF ~f.icon
            THEN Raise(Do(s1, "Image.open"), "FileNotFoundError") \* line 80
            ELSE IF ~SizeCheck(f)
            THEN Raise(s1, "AssertionError")             \* line 100
            ELSE
            LET out == [key |-> key, dim |-> f.fileDim,
                        data |-> [i \in 1..Len(MaskData(f)) |->
                                   BlendPixel(MaskData(f)[i], BaseData(f)[i])]]
            IN  [Do(Do(Do(s1, "blend"), "save"), "draw_image") EXCEPT
                    !.cache = [n \in DOMAIN st.cache \cup {name} |->
                                 IF n = name THEN out ELSE st.cache[n]],
                    !.drawn = out]

(***************************************************************************)
(* generate.py: render_component                                           *)
(***************************************************************************)
\* draw_clip_region(ctx, obj), lines 42-51.  draw_rectangle is bound
\* nowhere in generate.py (the import names rectangle), so line 46 raises
\* NameError.  A curve only prints the error and leaves no path.  No clip
\* region has the type of line 48, whose branch does nothing.
DrawClipRegion(st, shape) ==
    CASE shape = "ellipse" -> [Do(st, "rect_ellipse") EXCEPT !.path = "ellipse"]
      [] shape = "rectangle" -> Raise(st, "NameError")
      [] shape = "curve" -> Do(st, "print_curve_clip_error")

\* context.clip(): the clip becomes its intersection with the current
\* path, which is consumed; an empty path leaves an empty clip region
Intersect(region, path) ==
    IF region = "none" THEN path
    ELSE IF "empty" \in {region, path} THEN "empty"
    ELSE region

ContextClip(st) ==
    [Do(st, "clip") EXCEPT !.clip = Intersect(@, st.path), !.path = "empty"]

\* lines 58-61
ClipStep(st, comp) ==
    IF comp.clip = NoneVal \/ st.err # NoErr THEN st
    ELSE LET s1 == DrawClipRegion(st, comp.clip)
         IN  IF s1.err # NoErr THEN s1 ELSE ContextClip(s1)

\* context.reset_clip()
ResetClip(st) == [Do(st, "reset_clip") EXCEPT !.clip = "none"]

\* lines 63-70
ImageStep(st, comp, data) ==
    IF st.err # NoErr THEN st
    ELSE IF comp.image # NoneVal /\ data.override # NoneVal
    THEN ResetClip([Do(st, "draw_png_asset_override") EXCEPT
                       !.imageClip = st.clip])
    ELSE IF comp.image # NoneVal /\ data.key \in Assets(comp.image)
    THEN ResetClip([Do(st, "draw_png_asset_key") EXCEPT
                       !.imageClip = st.clip])
    ELSE st

\* lines 72-76
TextStep(st, comp, data) ==
    IF st.err # NoErr THEN st
    ELSE IF comp.text /\ comp.font # NoneVal /\ data.text # NoneVal
    THEN IF comp.font = "textBlock" THEN Do(st, "text_block")
         ELSE Do(st, "text")
    ELSE st

\* lines 78-79
CurveStep(st, comp, data) ==
    IF st.err # NoErr THEN st
    ELSE IF comp.curve /\ comp.font # NoneVal /\ data.text # NoneVal
    THEN Do(st, "curved_text")
    ELSE st

\* hasattr(neferset.custom, name)
Registered(name) == name = "set_watermark"

CustomStepRaisesOnUnknown(st, comp, data, f) ==
    IF st.err # NoErr \/ comp.custom = NoneVal THEN st
    ELSE IF Registered(comp.custom)
    THEN SetWatermark(Do(st, "call_handler"), data.data, f)
    ELSE Raise(st, "AttributeError")

\* lines 81-84
CustomStep(st, comp, data, f) ==
    IF st.err # NoErr \/ comp.custom = NoneVal THEN st
    ELSE IF Registered(comp.custom)
    THEN SetWatermark(Do(st, "call_handler"), data.data, f)
    ELSE st

\* render_component(context, component, data), lines 55-84
RenderComponent(st, comp, data, f) ==
    CustomStep(
        CurveStep(
            TextStep(
                ImageStep(ClipStep(st, comp), comp, data),
                comp, data),
            comp, data),
        comp, data, f)

(***************************************************************************)
(* generate.py: main                                                       *)
(***************************************************************************)
\* themeData[cardType]: the component types it declares, each with its
\* layer; found is FALSE when themeData has no entry for the card type
Themes ==
    { [found |-> TRUE, layer |-> l] :
        l \in UNION { [S -> Layers] :
                        S \in { T \in SUBSET ThemeTypes :
                                  Cardinality(T) <= MaxComponents } } }
    \cup { [found |-> FALSE, layer |-> [t \in {} |-> 1]] }

\* lines 125-130: the list in ComponentType order, before it is sorted
RECURSIVE Declared(_, _)
Declared(layer, i) ==
    IF i > Len(ComponentType) THEN <<>>
    ELSE (IF ComponentType[i] \in DOMAIN layer
          THEN <<[type |-> ComponentType[i],
                  layer |-> layer[ComponentType[i]]]>>
          ELSE <<>>) \o Declared(layer, i + 1)

InsertBeforeEqual(s, c) ==
    LET k == Cardinality({i \in DOMAIN s : s[i].layer < c.layer})
    IN  SubSeq(s, 1, k) \o <<c>> \o SubSeq(s, k + 1, Len(s))

\* line 131, list.sort(key=attrgetter("layer")): a stable sort, each
\* element placed behind the elements before it that are not greater
InsertByLayer(s, c) ==
    LET k == Cardinality({i \in DOMAIN s : s[i].layer <= c.layer})
    IN  SubSeq(s, 1, k) \o <<c>> \o SubSeq(s, k + 1, Len(s))

RECURSIVE SortByLayer(_)
SortByLayer(s) ==
    IF s = <<>> THEN <<>>
    ELSE InsertByLayer(SortByLayer(SubSeq(s, 1, Len(s) - 1)), s[Len(s)])

\* lines 136-167: the data of a component, from its type and the card
CData(type, c) ==
    CASE type = "name" -> ComponentData("default", "text", NoneVal, NoPayload)
      [] type = "elite" /\ c.elite ->
            ComponentData("default", NoneVal, NoneVal, NoPayload)
      [] type = "rarity" /\ c.craftable /\ c.card_set # "core" ->
            ComponentData(c.rarity, NoneVal, NoneVal, NoPayload)
      [] type = "multiClass" /\ c.multi # "invalid" ->
            ComponentData(c.multi, NoneVal, NoneVal, NoPayload)
      [] type = "classDecoration" ->
            ComponentData("class", NoneVal, NoneVal, NoPayload)
      [] type \in {"cost", "health", "attack"} ->
            ComponentData("default", "text", NoneVal, NoPayload)
      [] type = "race" /\ c.race # "invalid" ->
            ComponentData("default", "text", NoneVal, NoPayload)
      [] type = "portrait" ->
            ComponentData(NoneVal, NoneVal, "png", NoPayload)
      [] type = "base" ->
            ComponentData("default", NoneVal, NoneVal, NoPayload)
      [] type = "powers" ->
            ComponentData("default", c.description, NoneVal, NoPayload)
      [] type = "cardSet" ->
            ComponentData(NoneVal, NoneVal, NoneVal,
                [present |-> TRUE, card |-> c, premium |-> FALSE,
                 cardtype |-> c.type])
      [] OTHER -> NoData

NoLast == [type |-> NoneVal]

\* the files a component's handler reads
FilesOf(body) ==
    IF body.custom = "set_watermark" THEN WatermarkFiles ELSE {NoFiles}

Init ==
    /\ pc = "start"
    /\ card \in Cards \cup {UnknownCard}
    /\ theme \in Themes
    /\ components = <<>>
    /\ idx = 1
    /\ clip = "none"
    /\ err = NoErr
    /\ painted = <<>>
    /\ last = NoLast
    /\ ops = <<>>
    /\ written = FALSE
    /\ cache = EmptyCache
    /\ calls = 0 /\ blendRuns = 0
    /\ curve = Idle /\ estimates = 0 /\ snap = Idle /\ ret = Idle
    /\ size = 0 /\ width = 0

\* lines 106-112: the card id is not in the database
UnknownCardReturn ==
    /\ pc = "start"
    /\ card = UnknownCard
    /\ pc' = "returned"
    /\ UNCHANGED <<card, theme, components, idx, clip, err, painted, last,
                   ops, written, cache>>
    /\ UNCHANGED <<blendVars, curveVars, textVars, ret>>

\* lines 118-123: the theme has no entry for the card type
UnknownTypeReturn ==
    /\ pc = "start"
    /\ card # UnknownCard
    /\ ~theme.found
    /\ pc' = "returned"
    /\ UNCHANGED <<card, theme, components, idx, clip, err, painted, last,
                   ops, written, cache>>
    /\ UNCHANGED <<blendVars, curveVars, textVars, ret>>

\* lines 125-133: build and sort the components, set up the context
Load ==
    /\ pc = "start"
    /\ card # UnknownCard
    /\ theme.found
    /\ components' = SortByLayer(Declared(theme.layer, 1))
    /\ idx' = 1
    /\ clip' = "none"
    /\ pc' = "render"
    /\ UNCHANGED <<card, theme, err, painted, last, ops, written, cache>>
    /\ UNCHANGED <<blendVars, curveVars, textVars, ret>>

\* lines 135-169, the head of one pass of the loop with cdata None:
\* nothing is rendered for the component
SkipComponent ==
    /\ pc = "render"
    /\ idx <= Len(components)
    /\ ~CData(components[idx].type, card).present
    /\ idx' = idx + 1
    /\ last' = NoLast
    /\ ops' = <<>>
    /\ UNCHANGED <<pc, card, theme, components, clip, err, painted, written,
                   cache>>
    /\ UNCHANGED <<blendVars, curveVars, textVars, ret>>

\* lines 135-169, the head of one pass of the loop with cdata set
SelectComponent ==
    /\ pc = "render"
    /\ idx <= Len(components)
    /\ CData(components[idx].type, card).present
    /\ pc' = "call"
    /\ last' = NoLast
    /\ ops' = <<>>
    /\ UNCHANGED <<card, theme, components, idx, clip, err, painted, written,
                   cache>>
    /\ UNCHANGED <<blendVars, curveVars, textVars, ret>>

\* line 170: render_component(ctx, c, cdata).  The component's regions and
\* handler, and the files the handler reads, are read here and nowhere
\* else, so they are drawn here.  An exception leaves main: nothing later
\* runs.
RenderNext ==
    /\ pc = "call"
    /\ \E body \in ComponentBodies : \E f \in FilesOf(body) :
         LET c == components[idx]
             data == CData(c.type, card)
             st == RenderComponent(Enter(clip, cache), body, data, f)
         IN  /\ last' = [type |-> c.type, layer |-> c.layer, comp |-> body,
                         data |-> data, files |-> f,
                         imageClip |-> st.imageClip, drawn |-> st.drawn]
             /\ ops' = st.ops
             /\ clip' = st.clip
             /\ cache' = st.cache
             /\ err' = st.err
             /\ painted' = Append(painted, c.type)
             /\ IF st.err = NoErr
                THEN idx' = idx + 1 /\ pc' = "render"
                ELSE idx' = idx /\ pc' = "crashed"
    /\ UNCHANGED <<card, theme, components, written>>
    /\ UNCHANGED <<blendVars, curveVars, textVars, ret>>

\* lines 173-174: surface.flush() and write_to_png
WritePng ==
    /\ pc = "render"
    /\ idx > Len(components)
    /\ written' = TRUE
    /\ pc' = "done"
    /\ UNCHANGED <<card, theme, components, idx, clip, err, painted, last,
                   ops, cache>>
    /\ UNCHANGED <<blendVars, curveVars, textVars, ret>>

Next ==
    \/ UnknownCardReturn
    \/ UnknownTypeReturn
    \/ Load
    \/ SkipComponent
    \/ SelectComponent
    \/ RenderNext
    \/ WritePng

Spec == Init /\ [][Next]_vars

InOps(op) == \E i \in DOMAIN ops : ops[i] = op
Rendered == pc \in {"render", "crashed"} /\ last # NoLast

\* C1: when render_component returns, the canvas clip is none, whatever
\* the component's clip region, image, override and asset key
C1_ClipNoneOnReturn ==
    (Rendered /\ err = NoErr) => clip = "none"

\* C2: components are painted by ascending layer, and components of equal
\* layer in the order they had in the list before it was sorted
C2_PaintOrder ==
    \A i \in DOMAIN painted : \A j \in DOMAIN painted :
        i < j =>
            \/ theme.layer[painted[i]] < theme.layer[painted[j]]
            \/ /\ theme.layer[painted[i]] = theme.layer[painted[j]]
               /\ TypeIndex(painted[i]) < TypeIndex(painted[j])

\* two components of one layer were painted and the image was written
C2_Witness ==
    /\ pc = "done"
    /\ Len(painted) >= 2
    /\ theme.layer[painted[1]] = theme.layer[painted[2]]

\* C3: for a clip region of type curve the error is logged and the clip
\* step is skipped for that component, without aborting: no clip is
\* installed, and no exception leaves the call because of the clip
C3_CurveClipSkipped ==
    (Rendered /\ last.comp.clip = "curve") =>
        /\ InOps("print_curve_clip_error")
        /\ ~InOps("clip")
        /\ (err = NoErr \/ InOps("call_handler"))

\* C4: with the set icon file missing, set_watermark logs the error and
\* the blend still completes with a blank mask: the output is produced,
\* cached and drawn, and the render is not aborted
C4_MissingIconProceeds ==
    (Rendered /\ InOps("print_set_icon_missing")) =>
        /\ err = NoErr
        /\ pc = "render"
        /\ InOps("save")
        /\ InOps("draw_image")
        /\ \E n \in DOMAIN cache : cache[n] = last.drawn
        /\ \A i \in DOMAIN last.drawn.data : last.drawn.data[i][1] = "base"

\* set_watermark came to build the mask canvas and open the base image
ReachedSizeCheck ==
    /\ Rendered
    /\ InOps("call_handler")
    /\ last.data.data.present
    /\ ~InOps("return_not_craftable")
    /\ last.files.icon
    /\ (InOps("draw_image") => InOps("save"))

\* C5: whenever the mask canvas and the base image differ in width or
\* height, set_watermark fails before anything is cached or drawn, and the
\* failure aborts the render: no later component, no output image
C5_DimensionMismatchFatal ==
    (ReachedSizeCheck /\ last.files.maskDim # last.files.fileDim) =>
        /\ err = "AssertionError"
        /\ pc = "crashed"
        /\ ~written
        /\ ~InOps("save")
        /\ ~InOps("draw_image")
        /\ cache = EmptyCache

BlendCardTypes == {"minion", "hero_power"}
BlendFiles == {f \in WatermarkFiles : f.fileDim # <<2, 1>>}

InitBlend ==
    /\ pc = "idle"
    /\ card = Idle /\ theme = Idle /\ components = <<>> /\ idx = 0
    /\ clip = "none"
    /\ err = NoErr
    /\ painted = <<>>
    /\ last = NoLast
    /\ ops = <<>>
    /\ written = FALSE
    /\ cache = EmptyCache
    /\ calls = 0 /\ blendRuns = 0
    /\ curve = Idle /\ estimates = 0 /\ snap = Idle /\ ret = Idle
    /\ size = 0 /\ width = 0

\* a render begins
BlendStart ==
    /\ pc = "idle"
    /\ calls < MaxRenders
    /\ pc' = "running"
    /\ last' = NoLast /\ ops' = <<>> /\ err' = NoErr
    /\ UNCHANGED <<card, theme, components, idx, clip, painted, written,
                   cache>>
    /\ UNCHANGED <<blendVars, curveVars, textVars, ret>>

\* set_watermark(ctx, comp, data) for a card of some category, premium
\* flag, race and set
BlendCall ==
    /\ pc = "running"
    /\ \E ct \in BlendCardTypes : \E premium \in BOOLEAN :
       \E race \in {"invalid", "mech"} : \E set \in CardSets :
       \E f \in BlendFiles :
         LET data == [present |-> TRUE,
                      card |-> [race |-> race, card_set |-> set],
                      premium |-> premium, cardtype |-> ct]
             st == SetWatermark(Enter("none", cache), data, f)
         IN  /\ last' = [key |-> <<ct, premium, race # "invalid", set>>,
                         files |-> f, drawn |-> st.drawn]
             /\ ops' = st.ops
             /\ err' = st.err
             /\ cache' = st.cache
             /\ blendRuns' = blendRuns +
                    (IF \E i \in DOMAIN st.ops : st.ops[i] = "blend"
                     THEN 1 ELSE 0)
    /\ calls' = calls + 1
    /\ pc' = "idle"
    /\ UNCHANGED <<card, theme, components, idx, clip, painted, written>>
    /\ UNCHANGED <<curveVars, textVars, ret>>

NextBlend == BlendStart \/ BlendCall

SpecBlend == InitBlend /\ [][NextBlend]_vars

Stored(k) == \E n \in DOMAIN cache : cache[n].key = k

\* C9: once a render for a composite key (category, premium, race
\* presence, set) has stored its result, a later render with that key
\* draws the stored result, runs no per-pixel blend and leaves the cache
\* as it is; and what a render draws was produced for its own key
C9_CachedPerKey ==
    [][ calls' = calls + 1 =>
          /\ Stored(last'.key) =>
                /\ blendRuns' = blendRuns
                /\ cache' = cache
                /\ \E n \in DOMAIN cache : last'.drawn = cache[n]
          /\ last'.drawn # NoImage => last'.drawn.key = last'.key ]_vars

\* a second render of a key drew the stored image, and another key is
\* stored beside it
C9_Witness ==
    /\ calls = 3
    /\ blendRuns = 2
    /\ Cardinality(DOMAIN cache) = 2
    /\ ops = <<"draw_image">>
    /\ last.drawn.key = last.key

(***************************************************************************)
(* neferset/curved.py: CubicBezier                                         *)
(***************************************************************************)
\* estimate_length's segments; the code samples 100, the model fewer.
\* Lengths are kept in units of 1 / (Segments + 1)^3, the denominator of
\* evaluate(i / max), so every sample point is an integer pair.
Segments == 2
\* most offset calls made on one curve
MaxOffsets == 2
\* most estimate_length calls made on one curve
MaxEstimates == 3

\* control points of the curves of the model, and the offsets applied
Grid == {<<0, 0>>, <<1, 0>>, <<0, 1>>, <<1, 1>>}
Offsets == {<<0, 1>>, <<2, 0>>, <<-1, -3>>}

Abs(n) == IF n < 0 THEN -n ELSE n

\* the integer square root: math.sqrt, rounded down to the unit
ISqrt(n, hi) == CHOOSE r \in 0..hi : r * r <= n /\ n < (r + 1) * (r + 1)

\* Point.distance
Distance(p, q) ==
    LET dx == p[1] - q[1]
        dy == p[2] - q[2]
    IN  ISqrt(dx * dx + dy * dy, Abs(dx) + Abs(dy))

FromPointsDropsCache(cv, p0, p1, p2, p3) ==
    [p |-> <<p0, p1, p2, p3>>,
     a |-> p3[1] - 3 * p2[1] + 3 * p1[1] - p0[1],
     e |-> p3[2] - 3 * p2[2] + 3 * p1[2] - p0[2],
     b |-> 3 * p2[1] - 6 * p1[1] + 3 * p0[1],
     f |-> 3 * p2[2] - 6 * p1[2] + 3 * p0[2],
     c |-> 3 * p1[1] - 3 * p0[1],
     g |-> 3 * p1[2] - 3 * p0[2],
     d |-> p0[1],
     h |-> p0[2],
     arc |-> <<>>,
     length |-> 0]

\* _from_points(p0, p1, p2, p3), lines 19-27: the points and the
\* coefficients; _arc_lengths (arc) and _length (length) are not assigned
FromPoints(cv, p0, p1, p2, p3) ==
    [cv EXCEPT
        !.p = <<p0, p1, p2, p3>>,
        !.a = p3[1] - 3 * p2[1] + 3 * p1[1] - p0[1],
        !.e = p3[2] - 3 * p2[2] + 3 * p1[2] - p0[2],
        !.b = 3 * p2[1] - 6 * p1[1] + 3 * p0[1],
        !.f = 3 * p2[2] - 6 * p1[2] + 3 * p0[2],
        !.c = 3 * p1[1] - 3 * p0[1],
        !.g = 3 * p1[2] - 3 * p0[2],
        !.d = p0[1],
        !.h = p0[2]]

\* __init__, lines 9-17
NewCurve(p0, p1, p2, p3) ==
    [FromPoints([p |-> <<>>, a |-> 0, b |-> 0, c |-> 0, d |-> 0, e |-> 0,
                 f |-> 0, g |-> 0, h |-> 0, arc |-> <<>>, length |-> 0],
                p0, p1, p2, p3)
        EXCEPT !.arc = <<>>, !.length = 0]

\* evaluate(i / max), lines 44-47, times max^3
Evaluate(cv, i, max) ==
    <<cv.a * i * i * i + cv.b * i * i * max + cv.c * i * max * max
          + cv.d * max * max * max,
      cv.e * i * i * i + cv.f * i * i * max + cv.g * i * max * max
          + cv.h * max * max * max>>

\* the table estimate_length builds, lines 77-85: entry i + 1 is the sum
\* after sample i
RECURSIVE ArcTable(_, _, _)
ArcTable(cv, i, max) ==
    IF i = 0 THEN <<0>>
    ELSE LET t == ArcTable(cv, i - 1, max)
         IN  Append(t, t[Len(t)]
                       + Distance(Evaluate(cv, i - 1, max),
                                  Evaluate(cv, i, max)))

\* estimate_length(segments), lines 76-86: sets _arc_lengths and returns
\* the sum, which both callers assign to _length
EstimateLength(cv, segments) ==
    LET t == ArcTable(cv, segments + 1, segments + 1)
    IN  [cv EXCEPT !.arc = t, !.length = t[Len(t)]]

\* offset(x, y), lines 88-91
Offset(cv, x, y) ==
    FromPoints(cv,
        <<cv.p[1][1] + x, cv.p[1][2] + y>>, <<cv.p[2][1] + x, cv.p[2][2] + y>>,
        <<cv.p[3][1] + x, cv.p[3][2] + y>>, <<cv.p[4][1] + x, cv.p[4][2] + y>>)

NoSnap == [set |-> FALSE]
NoRet == [op |-> "none"]

InitCurve ==
    /\ pc = "constructed"
    /\ \E p0 \in Grid : \E p1 \in Grid : \E p2 \in Grid : \E p3 \in Grid :
         curve = NewCurve(p0, p1, p2, p3)
    /\ estimates = 0
    /\ snap = NoSnap
    /\ ret = NoRet
    /\ calls = 0
    /\ card = Idle /\ theme = Idle /\ components = <<>> /\ idx = 0
    /\ clip = "none" /\ err = NoErr /\ painted = <<>> /\ last = NoLast
    /\ ops = <<>> /\ written = FALSE /\ cache = EmptyCache
    /\ blendRuns = 0 /\ size = 0 /\ width = 0

\* the first length found positive, with its table, the estimate_length
\* calls made by then and the offset calls made by then
Snap(cv, n) ==
    IF ~snap.set /\ cv.length > 0
    THEN [set |-> TRUE, length |-> cv.length, arc |-> cv.arc,
          estimates |-> n, offsets |-> calls]
    ELSE snap

\* the length property, lines 38-42, read from a cache that is set
LengthCached ==
    /\ curve.length > 0
    /\ ret' = [op |-> "length", value |-> curve.length]
    /\ pc' = "length"
    /\ UNCHANGED <<curve, estimates, snap, calls>>
    /\ UNCHANGED <<card, theme, components, idx, clip, err, painted, last,
                   ops, written, cache, blendRuns, size, width>>

\* the length property, lines 38-42, sampling the curve
LengthEstimated ==
    /\ curve.length <= 0
    /\ estimates < MaxEstimates
    /\ LET cv == EstimateLength(curve, Segments)
       IN  /\ curve' = cv
           /\ estimates' = estimates + 1
           /\ snap' = Snap(cv, estimates + 1)
           /\ ret' = [op |-> "length", value |-> cv.length]
    /\ pc' = "length"
    /\ UNCHANGED calls
    /\ UNCHANGED <<card, theme, components, idx, clip, err, painted, last,
                   ops, written, cache, blendRuns, size, width>>

\* the arc_lengths property, lines 32-36, read from a table that is set
ArcLengthsCached ==
    /\ Len(curve.arc) > 0
    /\ ret' = [op |-> "arc_lengths", value |-> curve.arc]
    /\ pc' = "arc_lengths"
    /\ UNCHANGED <<curve, estimates, snap, calls>>
    /\ UNCHANGED <<card, theme, components, idx, clip, err, painted, last,
                   ops, written, cache, blendRuns, size, width>>

\* the arc_lengths property, lines 32-36, sampling the curve
ArcLengthsEstimated ==
    /\ Len(curve.arc) <= 0
    /\ estimates < MaxEstimates
    /\ LET cv == EstimateLength(curve, Segments)
       IN  /\ curve' = cv
           /\ estimates' = estimates + 1
           /\ snap' = Snap(cv, estimates + 1)
           /\ ret' = [op |-> "arc_lengths", value |-> cv.arc]
    /\ pc' = "arc_lengths"
    /\ UNCHANGED calls
    /\ UNCHANGED <<card, theme, components, idx, clip, err, painted, last,
                   ops, written, cache, blendRuns, size, width>>

\* offset(x, y), lines 88-91
OffsetCurve ==
    /\ calls < MaxOffsets
    /\ \E o \in Offsets : curve' = Offset(curve, o[1], o[2])
    /\ calls' = calls + 1
    /\ pc' = "offset"
    /\ UNCHANGED <<estimates, snap, ret>>
    /\ UNCHANGED <<card, theme, components, idx, clip, err, painted, last,
                   ops, written, cache, blendRuns, size, width>>

NextCurve ==
    \/ LengthCached
    \/ LengthEstimated
    \/ ArcLengthsCached
    \/ ArcLengthsEstimated
    \/ OffsetCurve

SpecCurve == InitCurve /\ [][NextCurve]_vars

\* C7: once the length of a curve of positive length has been computed,
\* offset leaves the cached table and length as they are: after any
\* offset calls the curve holds, and length and arc_lengths return, the
\* values first computed, and the curve is not sampled again
C7_OffsetKeepsCache ==
    snap.set =>
        /\ curve.length = snap.length
        /\ curve.arc = snap.arc
        /\ estimates = snap.estimates
        /\ (ret.op = "length" => ret.value = snap.length)
        /\ (ret.op = "arc_lengths" => ret.value = snap.arc)

\* the length was computed, the curve was then moved twice, and length
\* was read again
C7_Witness ==
    /\ snap.set
    /\ calls >= snap.offsets + 2
    /\ pc = "length"
    /\ curve.p # NewCurve(<<0, 0>>, <<1, 0>>, <<0, 1>>, <<1, 1>>).p
    /\ ret.value = snap.length

(***************************************************************************)
(* neferset/curved.py: CubicBezier.parametrize on an arc-length table      *)
(***************************************************************************)
\* most entries of a table, and the greatest length in it
MaxTable == 4
MaxArc == 3

NonDecreasing(t) == \A i \in 1..(Len(t) - 1) : t[i] <= t[i + 1]

\* the tables of a curve of positive length: non-decreasing, from 0
Tables ==
    { t \in UNION { [1..n -> 0..MaxArc] : n \in 2..MaxTable } :
        t[1] = 0 /\ NonDecreasing(t) /\ t[Len(t)] > 0 }

\* the values of u, as fractions
Fractions == {<<0, 1>>, <<1, 2>>, <<1, 1>>}

\* lines 57-64: the scan, from entry i (counted from 0) on; target is
\* un / ud times the last entry
RECURSIVE Scan(_, _, _, _, _, _)
Scan(t, un, ud, i, index, best) ==
    IF i >= Len(t) - 1 THEN index
    ELSE IF t[i + 1] * ud < un * t[Len(t)] /\ t[i + 1] > best
    THEN Scan(t, un, ud, i + 1, i, t[i + 1])
    ELSE Scan(t, un, ud, i + 1, index, best)

\* parametrize(u), lines 54-74, for u = un / ud; the value is the
\* fraction num / den, or the division by a segment of length 0 raised
Parametrize(t, un, ud) ==
    LET index == Scan(t, un, ud, 0, 0, 0)
        lb == t[index + 1]
        la == t[index + 2]
        seg_len == la - lb
    IN  IF t[index + 1] * ud = un * t[Len(t)]
        THEN [kind |-> "value", num |-> index, den |-> Len(t) - 1]
        ELSE IF seg_len = 0
        THEN [kind |-> "ZeroDivisionError"]
        ELSE [kind |-> "value",
              num |-> index * ud * seg_len + (un * t[Len(t)] - lb * ud),
              den |-> ud * seg_len * (Len(t) - 1)]

InitParam ==
    /\ pc = "table"
    /\ \E t \in Tables : curve = [arc |-> t, length |-> t[Len(t)]]
    /\ ret = NoRet
    /\ estimates = 0 /\ snap = NoSnap /\ calls = 0
    /\ card = Idle /\ theme = Idle /\ components = <<>> /\ idx = 0
    /\ clip = "none" /\ err = NoErr /\ painted = <<>> /\ last = NoLast
    /\ ops = <<>> /\ written = FALSE /\ cache = EmptyCache
    /\ blendRuns = 0 /\ size = 0 /\ width = 0

\* parametrize(u)
ParametrizeCall ==
    /\ \E u \in Fractions :
         ret' = [op |-> "parametrize", u |-> u,
                 t |-> Parametrize(curve.arc, u[1], u[2])]
    /\ pc' = "parametrize"
    /\ UNCHANGED <<curve, estimates, snap, calls>>
    /\ UNCHANGED <<card, theme, components, idx, clip, err, painted, last,
                   ops, written, cache, blendRuns, size, width>>

NextParam == ParametrizeCall

SpecParam == InitParam /\ [][NextParam]_vars

\* C8: for every non-decreasing table from 0 with a positive last entry,
\* parametrize(0) returns 0 and parametrize(1) returns 1
C8_ParametrizeEnds ==
    (ret.op = "parametrize" /\ curve.arc[Len(curve.arc)] > 0) =>
        /\ ret.u = <<0, 1>> => (ret.t.kind = "value" /\ ret.t.num = 0)
        /\ ret.u = <<1, 1>> =>
              (ret.t.kind = "value" /\ ret.t.num = ret.t.den)

(***************************************************************************)
(* neferset/curved.py: CurvedText.draw                                     *)
(***************************************************************************)
\* the greatest nominal font size, curve length and measured width
MaxFontSize == 3
MaxCurveLength == 3
MaxWidth == 4
\* how far below zero the model follows the size
MaxBelowZero == 2

InitText ==
    /\ pc = "shrink"
    /\ size \in 1..MaxFontSize
    /\ \E l \in 0..MaxCurveLength : curve = [length |-> l]
    /\ width = 0
    /\ ops = <<>>
    /\ ret = NoRet
    /\ estimates = 0 /\ snap = NoSnap /\ calls = 0
    /\ card = Idle /\ theme = Idle /\ components = <<>> /\ idx = 0
    /\ clip = "none" /\ err = NoErr /\ painted = <<>> /\ last = NoLast
    /\ written = FALSE /\ cache = EmptyCache /\ blendRuns = 0

\* lines 126-129: text_path measures the text wider than the curve is
\* long, and the size is decremented by size_step
TextTooWide ==
    /\ pc = "shrink"
    /\ size > -MaxBelowZero
    /\ \E w \in 0..MaxWidth :
         /\ w > curve.length
         /\ width' = w
    /\ size' = size - 1
    /\ UNCHANGED <<pc, ops, ret, curve, estimates, snap, calls>>
    /\ UNCHANGED <<card, theme, components, idx, clip, err, painted, last,
                   written, cache, blendRuns>>

\* lines 126-131: the text fits, and the loop is left
TextFits ==
    /\ pc = "shrink"
    /\ \E w \in 0..MaxWidth :
         /\ ~(w > curve.length)
         /\ width' = w
    /\ pc' = "fitted"
    /\ UNCHANGED <<size, ops, ret, curve, estimates, snap, calls>>
    /\ UNCHANGED <<card, theme, components, idx, clip, err, painted, last,
                   written, cache, blendRuns>>

\* lines 133-172: the curve is offset, the centred range computed (as
\* fractions of 2 * length), the path fitted and filled
Layout ==
    /\ pc = "fitted"
    /\ ret' = [op |-> "draw",
               rng |-> IF width < curve.length
                       THEN <<curve.length - width, curve.length + width>>
                       ELSE <<0, 2 * curve.length>>]
    /\ ops' = <<"offset", "new_path", "fill">>
    /\ pc' = "drawn"
    /\ UNCHANGED <<size, width, curve, estimates, snap, calls>>
    /\ UNCHANGED <<card, theme, components, idx, clip, err, painted, last,
                   written, cache, blendRuns>>

NextText == TextTooWide \/ TextFits \/ Layout

SpecText == InitText /\ [][NextText]_vars

\* C6: the shrink loop ends for every curve, text and shaping of the
\* text: the size is never decremented below a floor (no font is smaller
\* than size zero)
C6_SizeStaysAboveFloor == size >= 0

====
